---- MODULE Spec2Model ----
(***************************************************************************)
(* Model of the PS4 gamepad -> robot motor controller                      *)
(* (src/robot_controller.py, class PS4Controller).                         *)
(*                                                                         *)
(* Speeds and motor values are integers in hundredths (0.5 is 50, the      *)
(* right-wheel bias 0.01 is 1, full speed 1 is 100).  Time is an integer   *)
(* number of seconds read from a non-decreasing clock.                     *)
(***************************************************************************)
EXTENDS Integers, Sequences, FiniteSets, TLC

(***************************************************************************)
(* Bounds of the model.                                                    *)
(***************************************************************************)
\* the clock stops advancing at MaxTime
MaxTime == 1
\* at most MaxDown of the tracked buttons are physically down at once
MaxDown == 2

(***************************************************************************)
(* Configuration, src/robot_ps4/config.py (defaults), in hundredths.       *)
(***************************************************************************)
LEFT_MOTOR_SPEED == 50
RIGHT_MOTOR_SPEED == 51
SLOW_SPEED == 25
NORMAL_SPEED == 50
FAST_SPEED == 75
SUPER_SPEED == 99
HIGH_DEADZONE == 150
LOW_DEADZONE == 100

DefaultConfig ==
    [LEFT |-> LEFT_MOTOR_SPEED, RIGHT |-> RIGHT_MOTOR_SPEED,
     SLOW |-> SLOW_SPEED, NORMAL |-> NORMAL_SPEED,
     FAST |-> FAST_SPEED, SUPER |-> SUPER_SPEED,
     HIGH |-> HIGH_DEADZONE, LOW |-> LOW_DEADZONE,
     MAC |-> "AA:BB:CC:DD:EE:FF"]

\* the fixed right-wheel bias "+ 0.01" of modify_speed_helper
BIAS == 1
\* the magnitude 1 of the sharp turns in move
FULL == 100

(***************************************************************************)
(* Event vocabulary (evdev).                                               *)
(***************************************************************************)
EV_KEY == 1
EV_ABS == 3
ABS_X == 0
BUTTON_PRESS == 1
BUTTON_RELEASE == 0
PS_BUTTON_CODE == 316

key_map ==
    [x |-> 304, square |-> 308, triangle |-> 307, circle |-> 305,
     lt |-> 312, lb |-> 310, rt |-> 313, rb |-> 311]

\* codes of the key events the device sends: the mapped ones and one unmapped
KeyCodes == {key_map.x, key_map.square, key_map.triangle, key_map.circle,
             key_map.lt, key_map.lb, key_map.rt, key_map.rb, PS_BUTTON_CODE}
\* the two bumpers, the hold-to-move buttons
Bumpers == {key_map.lb, key_map.rb}
\* key events: press and release of every button, autorepeat of two of them
KeyInputs == (KeyCodes \X {BUTTON_RELEASE, BUTTON_PRESS})
                \cup ({key_map.rb, key_map.x} \X {2})
\* joystick positions on both sides of both deadzone thresholds
AxisValues == {LOW_DEADZONE, LOW_DEADZONE + 1, HIGH_DEADZONE - 1,
               HIGH_DEADZONE}
\* axis events: the horizontal axis, and two events of another axis
AxisInputs == ({ABS_X} \X AxisValues)
                 \cup ({ABS_X + 1} \X {LOW_DEADZONE + 1, HIGH_DEADZONE})
\* an event type that is neither EV_KEY nor EV_ABS (EV_SYN)
OtherTypes == {0}

None == "None"
\* direction_start_time before the first move (Python None)
NoTime == -1
NoEvent == [type |-> -1, code |-> -1, value |-> -1]
\* markers of what the read of the next event produced instead of an event
ReadError == [type |-> -2, code |-> -1, value |-> -1]
EndOfStream == [type |-> -3, code |-> -1, value |-> -1]

VARIABLES
    cfg,                    \* the configuration loaded at import
    leftmotorspeed,         \* self.leftmotorspeed
    rightmotorspeed,        \* self.rightmotorspeed
    variable_speed_map,     \* self.variable_speed_map
    current_direction,      \* self.current_direction
    direction_start_time,   \* self.direction_start_time
    button_is_held,         \* main's local button_is_held
    robot_value,            \* self.robot.value, the motor output
    pc,                     \* position of main
    outcome,                \* how main ended
    now,                    \* the clock, time.time()
    down,                   \* the tracked buttons physically down
    last_event,             \* the event whose handling the last step began
    cmds,                   \* motor commands written by the last step
    telemetry               \* duration records logged by the last step

vars == <<cfg, leftmotorspeed, rightmotorspeed, variable_speed_map,
          current_direction, direction_start_time, button_is_held,
          robot_value, pc, outcome, now, down, last_event, cmds, telemetry>>

speedvars == <<leftmotorspeed, rightmotorspeed, variable_speed_map>>
dirvars == <<current_direction, direction_start_time, robot_value>>

Min(a, b) == IF a < b THEN a ELSE b

(***************************************************************************)
(* PS4Controller.__init__ and the first lines of main.                     *)
(***************************************************************************)
InitController(c) ==
    /\ cfg = c
    /\ leftmotorspeed = c.LEFT
    /\ rightmotorspeed = c.RIGHT
    /\ variable_speed_map = [slow |-> 0, fast |-> 0, super |-> 0]
    /\ current_direction = None
    /\ direction_start_time = NoTime
    /\ button_is_held = FALSE
    /\ robot_value = <<0, 0>>
    /\ pc = "running"
    /\ outcome = "none"
    /\ now = 0
    /\ down = {}
    /\ last_event = NoEvent
    /\ cmds = <<>>
    /\ telemetry = <<>>

Init == InitController(DefaultConfig)

\* configurations the environment may set: the defaults, and the defaults
\* with SUPER_SPEED=1.0 (tiers still ordered slow < normal < fast < super <= 1)
Configs == {DefaultConfig, [DefaultConfig EXCEPT !.SUPER = FULL]}

InitConfig == \E c \in Configs : InitController(c)

(***************************************************************************)
(* PS4Controller.move                                                      *)
(***************************************************************************)
\* directions with the signs of left and right exchanged
directions_swapped(direction, L, R) ==
    CASE direction = "forward" -> <<-L, -R>>
      [] direction = "backward" -> <<L, R>>
      [] direction = "left" -> <<L, -R>>
      [] direction = "right" -> <<-L, R>>
      [] direction = "sharp_left" -> <<FULL, -FULL>>
      [] direction = "sharp_right" -> <<-FULL, FULL>>
      [] direction = "stop" -> <<0, 0>>
      [] OTHER -> <<0, 0>>

\* the table of move: direction -> (left, right)
directions(direction, L, R) ==
    CASE direction = "forward" -> <<-L, -R>>
      [] direction = "backward" -> <<L, R>>
      [] direction = "left" -> <<-L, R>>
      [] direction = "right" -> <<L, -R>>
      [] direction = "sharp_left" -> <<FULL, -FULL>>
      [] direction = "sharp_right" -> <<-FULL, FULL>>
      [] direction = "stop" -> <<0, 0>>
      [] OTHER -> <<0, 0>>

\* MoveLog without the test that the direction changes
MoveLog_every_call(direction, t) ==
    IF current_direction # None
    THEN <<[direction |-> current_direction,
            duration |-> t - direction_start_time]>>
    ELSE <<>>

\* the duration records move logs when called at time t
MoveLog(direction, t) ==
    IF current_direction # direction /\ current_direction # None
    THEN <<[direction |-> current_direction,
            duration |-> t - direction_start_time]>>
    ELSE <<>>

\* move that restarts the timer on every call
move_restamp(direction, t) ==
    /\ telemetry' = MoveLog(direction, t)
    /\ current_direction' = direction
    /\ direction_start_time' = t
    /\ robot_value' = directions(direction, leftmotorspeed, rightmotorspeed)
    /\ cmds' = <<robot_value'>>

\* move(direction) called at time t (the value of now after this step)
move(direction, t) ==
    /\ telemetry' = MoveLog(direction, t)
    /\ IF current_direction # direction
       THEN /\ current_direction' = direction
            /\ direction_start_time' = t
       ELSE UNCHANGED <<current_direction, direction_start_time>>
    /\ robot_value' = directions(direction, leftmotorspeed, rightmotorspeed)
    /\ cmds' = <<robot_value'>>

\* a step that does not call move
NoMove ==
    /\ UNCHANGED dirvars
    /\ cmds' = <<>>
    /\ telemetry' = <<>>

(***************************************************************************)
(* PS4Controller.modify_speed and modify_speed_helper                      *)
(***************************************************************************)
\* the tier magnitude modify_speed_helper selects for speed_type
TierSpeed(speed_type) ==
    CASE speed_type = "slow" -> cfg.SLOW
      [] speed_type = "fast" -> cfg.FAST
      [] speed_type = "super" -> cfg.SUPER

\* modify_speed_helper that, turning a tier off, keeps the active pair
modify_speed_helper_keep(speed_type) ==
    IF variable_speed_map[speed_type] = 0
    THEN /\ leftmotorspeed' = TierSpeed(speed_type)
         /\ rightmotorspeed' = TierSpeed(speed_type) + BIAS
         /\ variable_speed_map' = [variable_speed_map EXCEPT ![speed_type] = 1]
    ELSE /\ UNCHANGED <<leftmotorspeed, rightmotorspeed>>
         /\ variable_speed_map' = [variable_speed_map EXCEPT ![speed_type] = 0]

\* modify_speed_helper that forgets the bias when it reverts to Normal
modify_speed_helper_nobias(speed_type) ==
    IF variable_speed_map[speed_type] = 0
    THEN /\ leftmotorspeed' = TierSpeed(speed_type)
         /\ rightmotorspeed' = TierSpeed(speed_type) + BIAS
         /\ variable_speed_map' = [variable_speed_map EXCEPT ![speed_type] = 1]
    ELSE /\ leftmotorspeed' = cfg.NORMAL
         /\ rightmotorspeed' = cfg.NORMAL
         /\ variable_speed_map' = [variable_speed_map EXCEPT ![speed_type] = 0]

modify_speed_helper(speed_type) ==
    IF variable_speed_map[speed_type] = 0
    THEN /\ leftmotorspeed' = TierSpeed(speed_type)
         /\ rightmotorspeed' = TierSpeed(speed_type) + BIAS
         /\ variable_speed_map' = [variable_speed_map EXCEPT ![speed_type] = 1]
    ELSE /\ leftmotorspeed' = cfg.NORMAL
         /\ rightmotorspeed' = cfg.NORMAL + BIAS
         /\ variable_speed_map' = [variable_speed_map EXCEPT ![speed_type] = 0]

\* the speed type modify_speed picks for a button code
SpeedTypeOf(event_code) ==
    CASE event_code = key_map.square -> "slow"
      [] event_code = key_map.x -> "fast"
      [] event_code = key_map.circle -> "super"
      [] OTHER -> None

modify_speed(event_code) ==
    IF SpeedTypeOf(event_code) # None
    THEN modify_speed_helper(SpeedTypeOf(event_code))
    ELSE UNCHANGED speedvars

(***************************************************************************)
(* PS4Controller.spin: move(sharp), sleep(1), move(stop).  The sleep is    *)
(* the state pc = "spin_hold": main is inside spin and reads no event.     *)
(***************************************************************************)
\* the argument handle_key_event passes to spin for a trigger code
SpinArg(event_code) == IF event_code = 313 THEN "right" ELSE "left"

\* f"sharp_{direction}"
Sharp(direction) ==
    CASE direction = "left" -> "sharp_left"
      [] direction = "right" -> "sharp_right"

\* spin_begin that returns to the loop instead of sleeping
spin_begin_async(direction, t) ==
    /\ move(Sharp(direction), t)
    /\ pc' = "running"

\* spin up to the start of the sleep
spin_begin(direction, t) ==
    /\ move(Sharp(direction), t)
    /\ pc' = "spin_hold"

\* the rest of spin at time t, and the return of handle_key_event to main
spin_end(t) ==
    /\ move("stop", t)
    /\ button_is_held' = FALSE
    /\ pc' = "running"

(***************************************************************************)
(* main's exception handlers: KeyboardInterrupt and Exception both stop    *)
(* the robot, log, and let main return.                                    *)
(***************************************************************************)
\* main_except that re-raises after stopping the robot
main_except_reraise(t) ==
    /\ move("stop", t)
    /\ pc' = "terminated"
    /\ outcome' = "raised"

main_except(t) ==
    /\ move("stop", t)
    /\ pc' = "terminated"
    /\ outcome' = "returned"

(***************************************************************************)
(* PS4Controller.handle_key_event                                          *)
(***************************************************************************)
\* key_press with the two bumpers exchanged
key_press_swapped(event, t) ==
    /\ button_is_held' = TRUE
    /\ IF event.code = key_map.lb THEN move("forward", t)
       ELSE IF event.code = key_map.rb THEN move("backward", t)
       ELSE NoMove
    /\ UNCHANGED <<speedvars, pc, outcome>>

\* the branch event.value == BUTTON_PRESS
key_press(event, t) ==
    /\ button_is_held' = TRUE
    /\ IF event.code = key_map.rb THEN move("forward", t)
       ELSE IF event.code = key_map.lb THEN move("backward", t)
       ELSE NoMove
    /\ UNCHANGED <<speedvars, pc, outcome>>

\* the branch event.value == BUTTON_RELEASE
key_release(event, t) ==
    IF event.code \in {key_map.lb, key_map.rb}
    THEN /\ button_is_held' = FALSE
         /\ move("stop", t)
         /\ UNCHANGED <<speedvars, pc, outcome>>
    ELSE IF event.code \in {key_map.lt, key_map.rt}
    THEN \* the local button_is_held is returned only when spin is over
         /\ spin_begin(SpinArg(event.code), t)
         /\ UNCHANGED <<button_is_held, speedvars, outcome>>
    ELSE IF event.code \in {key_map.square, key_map.x, key_map.circle}
    THEN /\ button_is_held' = FALSE
         /\ modify_speed(event.code)
         /\ NoMove
         /\ UNCHANGED <<pc, outcome>>
    ELSE IF event.code = key_map.triangle
    THEN \* raise KeyboardInterrupt: nothing is returned to main
         /\ main_except(t)
         /\ UNCHANGED <<button_is_held, speedvars>>
    ELSE /\ button_is_held' = FALSE
         /\ NoMove
         /\ UNCHANGED <<speedvars, pc, outcome>>

handle_key_event(event, t) ==
    IF event.value = BUTTON_PRESS THEN key_press(event, t)
    ELSE IF event.value = BUTTON_RELEASE THEN key_release(event, t)
    ELSE /\ NoMove
         /\ UNCHANGED <<button_is_held, speedvars, pc, outcome>>

(***************************************************************************)
(* PS4Controller.handle_abs_event                                          *)
(***************************************************************************)
\* handle_abs_event that stops on re-centering whatever button_is_held
handle_abs_event_unguarded(absevent, t) ==
    /\ IF absevent.code = ABS_X
       THEN IF absevent.value >= cfg.HIGH THEN move("right", t)
            ELSE IF absevent.value <= cfg.LOW THEN move("left", t)
            ELSE move("stop", t)
       ELSE NoMove
    /\ UNCHANGED <<button_is_held, speedvars, pc, outcome>>

\* handle_abs_event in which button_is_held blocks the deflection too
handle_abs_event_blocked(absevent, t) ==
    /\ IF absevent.code = ABS_X /\ ~button_is_held
       THEN IF absevent.value >= cfg.HIGH THEN move("right", t)
            ELSE IF absevent.value <= cfg.LOW THEN move("left", t)
            ELSE move("stop", t)
       ELSE NoMove
    /\ UNCHANGED <<button_is_held, speedvars, pc, outcome>>

handle_abs_event(absevent, t) ==
    /\ IF absevent.code = ABS_X
       THEN IF absevent.value >= cfg.HIGH THEN move("right", t)
            ELSE IF absevent.value <= cfg.LOW THEN move("left", t)
            ELSE IF ~button_is_held THEN move("stop", t)
            ELSE NoMove
       ELSE NoMove
    /\ UNCHANGED <<button_is_held, speedvars, pc, outcome>>

(***************************************************************************)
(* The input device: controller.read_loop().  A tracked button is pressed  *)
(* only when it is up, and released or repeated only when it is down.      *)
(* Spec tracks the bumpers and lets the other buttons send any event (they *)
(* may be down when main starts to read); SpecPhysical tracks every        *)
(* button, all of them up when main starts.                                *)
(***************************************************************************)
\* the times the clock may show when the next event has been read
Clock == now .. Min(now + 1, MaxTime)

KeyPossible(tracked, code, value) ==
    code \in tracked =>
        IF value = BUTTON_PRESS
        THEN code \notin down /\ Cardinality(down) < MaxDown
        ELSE code \in down

DownAfter(tracked, code, value) ==
    IF code \notin tracked THEN down
    ELSE IF value = BUTTON_PRESS THEN down \cup {code}
    ELSE IF value = BUTTON_RELEASE THEN down \ {code}
    ELSE down

(***************************************************************************)
(* PS4Controller.main: one iteration of the loop per step.                 *)
(***************************************************************************)
KeyEventOf(tracked) ==
    /\ pc = "running"
    /\ \E in \in KeyInputs, t \in Clock :
          LET event == [type |-> EV_KEY, code |-> in[1], value |-> in[2]] IN
          /\ KeyPossible(tracked, event.code, event.value)
          \* a spin sleeps one second: it starts only if the clock can go on
          /\ (event.value = BUTTON_RELEASE
                /\ event.code \in {key_map.lt, key_map.rt}) => t < MaxTime
          /\ now' = t
          /\ down' = DownAfter(tracked, event.code, event.value)
          /\ last_event' = event
          /\ handle_key_event(event, t)
    /\ UNCHANGED cfg

KeyEvent == KeyEventOf(Bumpers)

KeyEventPhysical == KeyEventOf(KeyCodes)

AbsEvent ==
    /\ pc = "running"
    /\ \E in \in AxisInputs, t \in Clock :
          LET event == [type |-> EV_ABS, code |-> in[1], value |-> in[2]] IN
          /\ now' = t
          /\ last_event' = event
          /\ handle_abs_event(event, t)
    /\ UNCHANGED <<cfg, down>>

\* an event of another type: neither branch of main is taken
OtherEvent ==
    /\ pc = "running"
    /\ \E type \in OtherTypes, t \in Clock :
          /\ now' = t
          /\ last_event' = [type |-> type, code |-> 0, value |-> 0]
    /\ NoMove
    /\ UNCHANGED <<cfg, down, button_is_held, speedvars, pc, outcome>>

\* time.sleep(1) is over: spin stops the robot and main goes on
SpinHold ==
    /\ pc = "spin_hold"
    /\ \E t \in (now + 1) .. Min(now + 2, MaxTime) :
          /\ now' = t
          /\ spin_end(t)
    /\ UNCHANGED <<cfg, down, last_event, speedvars, outcome>>

\* read_loop raises (the device is gone): except Exception
ReadFailure ==
    /\ pc = "running"
    /\ \E t \in Clock :
          /\ now' = t
          /\ last_event' = ReadError
          /\ main_except(t)
    /\ UNCHANGED <<cfg, down, button_is_held, speedvars>>

\* the iterator is exhausted: the for loop ends and main returns
StreamEnd ==
    /\ pc = "running"
    /\ last_event' = EndOfStream
    /\ pc' = "terminated"
    /\ outcome' = "returned"
    /\ NoMove
    /\ UNCHANGED <<cfg, down, now, button_is_held, speedvars>>

Next ==
    \/ KeyEvent
    \/ AbsEvent
    \/ OtherEvent
    \/ SpinHold
    \/ ReadFailure
    \/ StreamEnd

Spec == Init /\ [][Next]_vars

\* the loop under every configuration of Configs
SpecConfig == InitConfig /\ [][Next]_vars

(***************************************************************************)
(* Start of the process: the import of robot_ps4.config, which requires    *)
(* MAC_ADDRESS, then PS4Controller() and main().  Before the import the    *)
(* controller does not exist: its variables hold the values __init__ will  *)
(* give them and pc = "import".                                            *)
(***************************************************************************)
\* what os.getenv("MAC_ADDRESS") may return: absent, empty, an address
MacAddresses == {None, "", "AA:BB:CC:DD:EE:FF"}

\* the test about "is None" only, which lets the empty string through
MacAddressSet_not_none(mac) == mac # None

\* the truth value of MAC_ADDRESS in "if not MAC_ADDRESS"
MacAddressSet(mac) == mac # None /\ mac # ""

InitStartup ==
    /\ cfg \in {[DefaultConfig EXCEPT !.MAC = mac] : mac \in MacAddresses}
    /\ leftmotorspeed = cfg.LEFT
    /\ rightmotorspeed = cfg.RIGHT
    /\ variable_speed_map = [slow |-> 0, fast |-> 0, super |-> 0]
    /\ current_direction = None
    /\ direction_start_time = NoTime
    /\ button_is_held = FALSE
    /\ robot_value = <<0, 0>>
    /\ pc = "import"
    /\ outcome = "none"
    /\ now = 0
    /\ down = {}
    /\ last_event = NoEvent
    /\ cmds = <<>>
    /\ telemetry = <<>>

\* the import raises ValueError, or PS4Controller() is built and main starts
Startup ==
    /\ pc = "import"
    /\ IF MacAddressSet(cfg.MAC)
       THEN /\ pc' = "running"
            /\ leftmotorspeed' = cfg.LEFT
            /\ rightmotorspeed' = cfg.RIGHT
            /\ variable_speed_map' = [slow |-> 0, fast |-> 0, super |-> 0]
            /\ current_direction' = None
            /\ direction_start_time' = NoTime
            /\ button_is_held' = FALSE
            /\ robot_value' = <<0, 0>>
            /\ UNCHANGED outcome
       ELSE /\ pc' = "failed"
            /\ outcome' = "raised"
            /\ UNCHANGED <<speedvars, dirvars, button_is_held>>
    /\ UNCHANGED <<cfg, now, down, last_event, cmds, telemetry>>

NextStartup ==
    \/ Startup
    \/ Next

SpecStartup == InitStartup /\ [][NextStartup]_vars

\* the same loop fed by a gamepad all of whose buttons are tracked
NextPhysical ==
    \/ KeyEventPhysical
    \/ AbsEvent
    \/ OtherEvent
    \/ SpinHold
    \/ ReadFailure
    \/ StreamEnd

SpecPhysical == Init /\ [][NextPhysical]_vars

(***************************************************************************)
(* Vocabulary of the properties.                                           *)
(***************************************************************************)
KeyEv(code, value) == [type |-> EV_KEY, code |-> code, value |-> value]

\* an ABS_X event strictly inside the deadzone band
IsAxisCenter(e) ==
    /\ e.type = EV_ABS
    /\ e.code = ABS_X
    /\ e.value > LOW_DEADZONE
    /\ e.value < HIGH_DEADZONE

IsAxisHigh(e) == e.type = EV_ABS /\ e.code = ABS_X /\ e.value >= HIGH_DEADZONE
IsAxisLow(e) == e.type = EV_ABS /\ e.code = ABS_X /\ e.value <= LOW_DEADZONE

\* the loop is about to read an event, and the event this step handles is e
Handles(e) == pc = "running" /\ last_event' = e

\* a bumper is physically down and the direction is the one it commanded
BumperDriving ==
    \/ key_map.rb \in down /\ current_direction = "forward"
    \/ key_map.lb \in down /\ current_direction = "backward"

\* the motor command table as the specification states it
TableCommand(d, L, R) ==
    CASE d = "forward" -> <<-L, -R>>
      [] d = "backward" -> <<L, R>>
      [] d = "left" -> <<-L, R>>
      [] d = "right" -> <<L, -R>>
      [] d = "sharp_left" -> <<100, -100>>
      [] d = "sharp_right" -> <<-100, 100>>
      [] d = "stop" -> <<0, 0>>

(***************************************************************************)
(* C1: an ABS_X event strictly inside the deadzone band, handled while     *)
(* button_is_held is true, leaves the direction as it is and writes no     *)
(* motor command; handled while button_is_held is false, it sets the       *)
(* direction to stop and writes (0, 0).                                    *)
(***************************************************************************)
C1_CenterBlockedWhileHeld ==
    [][ (pc = "running" /\ IsAxisCenter(last_event')) =>
          IF button_is_held
          THEN /\ current_direction' = current_direction
               /\ robot_value' = robot_value
               /\ cmds' = <<>>
          ELSE /\ current_direction' = "stop"
               /\ robot_value' = <<0, 0>>
               /\ cmds' = << <<0, 0>> >> ]_vars

\* re-centering was handled while RB drove forward: still forward, no command
C1_Witness ==
    /\ IsAxisCenter(last_event)
    /\ button_is_held
    /\ current_direction = "forward"
    /\ robot_value = <<-50, -51>>
    /\ cmds = <<>>

(***************************************************************************)
(* C2: while a bumper is physically down and the direction is the one it   *)
(* commanded, a re-centering ABS_X event never changes the direction and   *)
(* never writes a motor command, whatever other buttons were pressed or    *)
(* released since the bumper went down.                                    *)
(***************************************************************************)
C2_CenterNeverCancelsBumper ==
    [][ (pc = "running" /\ BumperDriving /\ IsAxisCenter(last_event')) =>
          /\ current_direction' = current_direction
          /\ cmds' = <<>> ]_vars

(***************************************************************************)
(* C3: whenever main has ended, by whatever path, the last motor command   *)
(* written is (0, 0).                                                      *)
(***************************************************************************)
C3_FinalStopOnEveryExit ==
    pc = "terminated" => robot_value = <<0, 0>>

(***************************************************************************)
(* C4: a triangle press ends the session with (0, 0) as the command of     *)
(* that step, and a triangle release does not end the session.             *)
(***************************************************************************)
C4_ExitOnTrianglePress ==
    [][ /\ Handles(KeyEv(key_map.triangle, BUTTON_PRESS)) =>
             (pc' = "terminated" /\ cmds' = << <<0, 0>> >>)
        /\ Handles(KeyEv(key_map.triangle, BUTTON_RELEASE)) =>
             pc' # "terminated" ]_vars

(***************************************************************************)
(* C5: every step that calls move writes exactly the command the table     *)
(* gives for the direction and the active speed pair, and two consecutive  *)
(* calls for the same direction write the same command.                    *)
(***************************************************************************)
C5_MoveTable ==
    [][ cmds' # <<>> =>
          /\ cmds' = << TableCommand(current_direction',
                                     leftmotorspeed, rightmotorspeed) >>
          /\ robot_value' = cmds'[1]
          /\ (cmds # <<>> /\ current_direction' = current_direction)
                => cmds' = cmds ]_vars

\* a left turn at the fast tier was written to the motors
C5_Witness ==
    /\ current_direction = "left"
    /\ leftmotorspeed = 75
    /\ cmds = << <<-75, 76>> >>

(***************************************************************************)
(* C6: the release of square, x or circle toggles slow, fast or super.     *)
(* Turned on, the active pair becomes (tier, tier + 0.01); turned off, it  *)
(* becomes (Normal, Normal + 0.01) whatever the other flags, and the other *)
(* flags keep their value.  So after any toggle that leaves its flag off,  *)
(* the pair is Normal.                                                     *)
(***************************************************************************)
\* the flag and the magnitude the specification gives each button
ToggleOf(code) ==
    CASE code = key_map.square -> [flag |-> "slow", speed |-> SLOW_SPEED]
      [] code = key_map.x -> [flag |-> "fast", speed |-> FAST_SPEED]
      [] code = key_map.circle -> [flag |-> "super", speed |-> SUPER_SPEED]

C6_ToggleSpeed ==
    [][ \A code \in {key_map.square, key_map.x, key_map.circle} :
          Handles(KeyEv(code, BUTTON_RELEASE)) =>
            LET f == ToggleOf(code).flag
                on == variable_speed_map[f] = 0
                tier == IF on THEN ToggleOf(code).speed ELSE NORMAL_SPEED
            IN  /\ variable_speed_map' =
                      [variable_speed_map EXCEPT ![f] = IF on THEN 1 ELSE 0]
                /\ leftmotorspeed' = tier
                /\ rightmotorspeed' = tier + 1
                /\ variable_speed_map'[f] = 0 =>
                      /\ leftmotorspeed' = NORMAL_SPEED
                      /\ rightmotorspeed' = NORMAL_SPEED + 1 ]_vars

\* fast was turned off while slow is still on: the pair is Normal
C6_Witness ==
    /\ last_event = KeyEv(key_map.x, BUTTON_RELEASE)
    /\ variable_speed_map = [slow |-> 1, fast |-> 0, super |-> 0]
    /\ leftmotorspeed = 50
    /\ rightmotorspeed = 51

(***************************************************************************)
(* C7: an RB press sets the direction to forward and button_is_held to     *)
(* true, an LB press sets backward and true, and the release of a bumper   *)
(* sets button_is_held to false and the direction to stop.  With the       *)
(* Normal pair an RB press writes (-0.5, -0.51), and the RB release that   *)
(* follows it writes (0, 0) and logs exactly one record, for forward.      *)
(***************************************************************************)
C7_BumperPressRelease ==
    [][ /\ Handles(KeyEv(key_map.rb, BUTTON_PRESS)) =>
             /\ current_direction' = "forward"
             /\ button_is_held'
             /\ (leftmotorspeed = 50 /\ rightmotorspeed = 51)
                   => cmds' = << <<-50, -51>> >>
        /\ Handles(KeyEv(key_map.lb, BUTTON_PRESS)) =>
             /\ current_direction' = "backward"
             /\ button_is_held'
        /\ \A b \in Bumpers :
             Handles(KeyEv(b, BUTTON_RELEASE)) =>
               /\ current_direction' = "stop"
               /\ ~button_is_held'
        /\ (last_event = KeyEv(key_map.rb, BUTTON_PRESS)
              /\ Handles(KeyEv(key_map.rb, BUTTON_RELEASE))) =>
             /\ cmds' = << <<0, 0>> >>
             /\ Len(telemetry') = 1
             /\ telemetry'[1].direction = "forward" ]_vars

\* RB was released right after its press, one second of forward is logged
C7_Witness ==
    /\ last_event = KeyEv(key_map.rb, BUTTON_RELEASE)
    /\ telemetry = << [direction |-> "forward", duration |-> 1] >>
    /\ cmds = << <<0, 0>> >>
    /\ current_direction = "stop"
    /\ ~button_is_held

(***************************************************************************)
(* C8: whatever button_is_held, an ABS_X value >= HIGH_DEADZONE sets the   *)
(* direction to right and writes (L, -R), and a value <= LOW_DEADZONE sets *)
(* left and writes (-L, R), with (L, R) the active speed pair; so a        *)
(* deflection while a bumper is held takes the direction over.             *)
(***************************************************************************)
C8_AxisDeflection ==
    [][ pc = "running" =>
          /\ IsAxisHigh(last_event') =>
               /\ current_direction' = "right"
               /\ cmds' = << <<leftmotorspeed, -rightmotorspeed>> >>
          /\ IsAxisLow(last_event') =>
               /\ current_direction' = "left"
               /\ cmds' = << <<-leftmotorspeed, rightmotorspeed>> >> ]_vars

\* RB is held and drove forward; the deflection turned the robot right
C8_Witness ==
    /\ IsAxisHigh(last_event)
    /\ button_is_held
    /\ key_map.rb \in down
    /\ current_direction = "right"
    /\ Len(telemetry) = 1
    /\ telemetry[1].direction = "forward"
    /\ cmds = << <<50, -51>> >>

(***************************************************************************)
(* C9: the release of RT writes (-1, 1) and the release of LT (1, -1),     *)
(* and main is then inside spin; the only step it takes from there is the  *)
(* end of the hold, at least one second later, which writes (0, 0), sets   *)
(* the direction to stop and handles no input event.                       *)
(***************************************************************************)
C9_SpinIsOneStep ==
    [][ /\ Handles(KeyEv(key_map.rt, BUTTON_RELEASE)) =>
             (pc' = "spin_hold" /\ cmds' = << <<-100, 100>> >>)
        /\ Handles(KeyEv(key_map.lt, BUTTON_RELEASE)) =>
             (pc' = "spin_hold" /\ cmds' = << <<100, -100>> >>)
        /\ pc = "spin_hold" =>
             /\ pc' = "running"
             /\ last_event' = last_event
             /\ now' >= now + 1
             /\ cmds' = << <<0, 0>> >>
             /\ robot_value' = <<0, 0>>
             /\ current_direction' = "stop" ]_vars

\* the spin of an RT release is over: the sharp turn lasted a second
C9_Witness ==
    /\ pc = "running"
    /\ last_event = KeyEv(key_map.rt, BUTTON_RELEASE)
    /\ current_direction = "stop"
    /\ cmds = << <<0, 0>> >>
    /\ telemetry = << [direction |-> "sharp_right", duration |-> 1] >>

(***************************************************************************)
(* C10: a step that calls move and changes the direction away from a       *)
(* direction set before logs exactly one record, which names that previous *)
(* direction and has a duration >= 0; a call that keeps the direction, the *)
(* call that sets the first direction, and a step that does not call move  *)
(* log nothing.                                                            *)
(***************************************************************************)
C10_TelemetryOnChange ==
    [][ IF /\ cmds' # <<>>
           /\ current_direction # None
           /\ current_direction' # current_direction
        THEN /\ Len(telemetry') = 1
             /\ telemetry'[1].direction = current_direction
             /\ telemetry'[1].duration = now' - direction_start_time
             /\ telemetry'[1].duration >= 0
        ELSE telemetry' = <<>> ]_vars

\* the direction changed from left to right and one record was logged
C10_Witness ==
    /\ current_direction = "right"
    /\ telemetry = << [direction |-> "left", duration |-> 0] >>
    /\ cmds # <<>>

(***************************************************************************)
(* C11: under every configuration with slow < normal < fast < super <= 1.0 *)
(* both components of every motor command written lie in [-1.0, 1.0],      *)
(* that is in -100 .. 100 hundredths.                                      *)
(***************************************************************************)
InRange(cmd) == cmd[1] \in -100 .. 100 /\ cmd[2] \in -100 .. 100

C11_CommandsInRange ==
    (cfg.SLOW < cfg.NORMAL /\ cfg.NORMAL < cfg.FAST
       /\ cfg.FAST < cfg.SUPER /\ cfg.SUPER <= 100)
    => /\ InRange(robot_value)
       /\ \A i \in 1 .. Len(cmds) : InRange(cmds[i])

(***************************************************************************)
(* C12 as stated: when the read of the next event fails, main writes the   *)
(* final (0, 0), ends, and the failure reaches its caller as an exception. *)
(***************************************************************************)
C12_ReadFailureSurfaced ==
    (pc = "terminated" /\ last_event = ReadError) =>
        /\ robot_value = <<0, 0>>
        /\ outcome = "raised"

(***************************************************************************)
(* C12 as amended: when the read of the next event fails, main writes the  *)
(* final (0, 0) and ends without reading again, and it returns normally:   *)
(* main ends the same way after a read failure and after Exit.             *)
(***************************************************************************)
C12_ReadFailureStopsAndReturns ==
    pc = "terminated" =>
        /\ outcome = "returned"
        /\ ~ENABLED Next
        /\ last_event = ReadError =>
              (cmds = << <<0, 0>> >> /\ robot_value = <<0, 0>>)

\* the read failed while the robot drove forward: stopped, main returned
C12_Witness ==
    /\ pc = "terminated"
    /\ last_event = ReadError
    /\ outcome = "returned"
    /\ robot_value = <<0, 0>>
    /\ Len(telemetry) = 1
    /\ telemetry[1].direction = "forward"

(***************************************************************************)
(* C13: an unrecognized event (a type other than key and absolute axis, an *)
(* absolute-axis event of another axis than ABS_X, a key event with an     *)
(* unmapped code, a key event whose value is neither 0 nor 1) raises no    *)
(* error and changes nothing: direction, start time, speed toggles, speed  *)
(* pair, button_is_held and motor output keep their values.                *)
(***************************************************************************)
MappedCodes == {key_map.x, key_map.square, key_map.triangle, key_map.circle,
                key_map.lt, key_map.lb, key_map.rt, key_map.rb}

Unrecognized(e) ==
    /\ e.type >= 0
    /\ \/ e.type \notin {EV_KEY, EV_ABS}
       \/ e.type = EV_ABS /\ e.code # ABS_X
       \/ e.type = EV_KEY /\ e.code \notin MappedCodes
       \/ e.type = EV_KEY /\ e.value \notin {BUTTON_RELEASE, BUTTON_PRESS}

C13_UnrecognizedIgnored ==
    [][ (pc = "running" /\ Unrecognized(last_event')) =>
          /\ pc' = "running"
          /\ cmds' = <<>>
          /\ UNCHANGED <<current_direction, direction_start_time,
                         variable_speed_map, leftmotorspeed, rightmotorspeed,
                         button_is_held, robot_value>> ]_vars

(***************************************************************************)
(* C14: when MAC_ADDRESS is absent or empty, the start fails for good: the *)
(* loop never runs, no event is read, no motor command is written, and the *)
(* failed process takes no further step.                                   *)
(***************************************************************************)
C14_NoStartWithoutMac ==
    (cfg.MAC = None \/ cfg.MAC = "") =>
        /\ pc \in {"import", "failed"}
        /\ last_event = NoEvent
        /\ cmds = <<>>
        /\ robot_value = <<0, 0>>
        /\ pc = "failed" => (outcome = "raised" /\ ~ENABLED NextStartup)

\* the start failed on an empty MAC_ADDRESS
C14_Witness ==
    /\ cfg.MAC = ""
    /\ pc = "failed"
    /\ outcome = "raised"

(***************************************************************************)
(* C15: whenever the loop is about to read an event, button_is_held is     *)
(* true exactly when a bumper (RB or LB) is physically down; so events of  *)
(* the other buttons, which leave the bumpers as they are, leave           *)
(* button_is_held as it is.                                                *)
(***************************************************************************)
C15_HeldIffBumperDown ==
    pc = "running" => (button_is_held <=> (down \cap Bumpers # {}))

(***************************************************************************)
(* C16 as stated: the direction is Stop from the start (no direction yet   *)
(* counts as Stop) with the start time unset, and the start time is        *)
(* written exactly when the direction changes to a different value; so a   *)
(* stop commanded before any movement does not set the start time.         *)
(***************************************************************************)
StopIfNone(d) == IF d = None THEN "stop" ELSE d

C16_StartWrittenOnChangeFromStop ==
    [][ direction_start_time' =
          IF StopIfNone(current_direction') # StopIfNone(current_direction)
          THEN now'
          ELSE direction_start_time ]_vars

(***************************************************************************)
(* C16 as amended: current_direction is initially None (not Stop) with the *)
(* start time unset, and the start time is written exactly when            *)
(* current_direction changes to a different value, the first move from     *)
(* None included: a move to the current direction leaves it unchanged, a   *)
(* stop commanded before any movement sets it (logging nothing), and the   *)
(* change away from that stop logs a record for stop.                      *)
(***************************************************************************)
C16_StartWrittenOnChange ==
    [][ /\ last_event = NoEvent => current_direction = None
        /\ (current_direction = None) <=> (direction_start_time = NoTime)
        /\ direction_start_time' =
             IF current_direction' # current_direction
             THEN now'
             ELSE direction_start_time
        /\ (current_direction = None /\ current_direction' = "stop") =>
             telemetry' = <<>>
        /\ (current_direction = "stop" /\ current_direction' # "stop") =>
             telemetry' = << [direction |-> "stop",
                              duration |-> now' - direction_start_time] >>
      ]_vars

\* the first event re-centered the joystick: stop is set and timed
C16_Witness ==
    /\ IsAxisCenter(last_event)
    /\ current_direction = "stop"
    /\ direction_start_time = 1
    /\ now = 1
    /\ telemetry = <<>>
    /\ cmds = << <<0, 0>> >>

(***************************************************************************)
(* C17: with the default configuration, in every reachable state the right *)
(* speed is the left speed + 0.01 and the left speed is one of the four    *)
(* tier magnitudes.                                                        *)
(***************************************************************************)
C17_PairIsATier ==
    /\ rightmotorspeed = leftmotorspeed + 1
    /\ leftmotorspeed \in {SLOW_SPEED, NORMAL_SPEED, FAST_SPEED, SUPER_SPEED}

\* super was toggled on and then fast off: the pair is back at Normal
C17_Witness ==
    /\ last_event = KeyEv(key_map.x, BUTTON_RELEASE)
    /\ variable_speed_map = [slow |-> 0, fast |-> 0, super |-> 1]
    /\ leftmotorspeed = 50
    /\ rightmotorspeed = 51

(***************************************************************************)
(* C18: after every fully handled event the motor output is the table      *)
(* value of the current direction and the current active speed pair, so a  *)
(* speed toggle made while the robot moves shows in the motor output at    *)
(* once.                                                                   *)
(***************************************************************************)
C18_OutputFollowsPair ==
    (pc = "running" /\ last_event # NoEvent /\ current_direction # None) =>
        robot_value = TableCommand(current_direction,
                                   leftmotorspeed, rightmotorspeed)

(***************************************************************************)
(* C19: if the active pair is that of slow, fast or super, the flag of     *)
(* that tier is on; and whenever all three flags are off the pair is       *)
(* (Normal, Normal + 0.01).  A flag may be on while the pair is Normal.    *)
(***************************************************************************)
C19_PairImpliesFlag ==
    /\ (leftmotorspeed = SLOW_SPEED /\ rightmotorspeed = SLOW_SPEED + 1)
          => variable_speed_map.slow = 1
    /\ (leftmotorspeed = FAST_SPEED /\ rightmotorspeed = FAST_SPEED + 1)
          => variable_speed_map.fast = 1
    /\ (leftmotorspeed = SUPER_SPEED /\ rightmotorspeed = SUPER_SPEED + 1)
          => variable_speed_map.super = 1
    /\ variable_speed_map = [slow |-> 0, fast |-> 0, super |-> 0]
          => (leftmotorspeed = NORMAL_SPEED
                /\ rightmotorspeed = NORMAL_SPEED + 1)

\* slow on, fast on, fast off: slow is still flagged and the pair is Normal
C19_Witness ==
    /\ last_event = KeyEv(key_map.x, BUTTON_RELEASE)
    /\ variable_speed_map = [slow |-> 1, fast |-> 0, super |-> 0]
    /\ leftmotorspeed = NORMAL_SPEED
    /\ rightmotorspeed = NORMAL_SPEED + 1
    /\ current_direction = "forward"

====
